---- MODULE Spec2Model ----
(***************************************************************************)
(* A model of go-signals: the Signal receiver registry (Connect,           *)
(* Disconnect, Clear), the two dispatch algorithms (Send, SendAsync), the  *)
(* Receiver handle and the named-signal Pool.                              *)
(***************************************************************************)
EXTENDS Integers, Sequences, FiniteSets, TLC

\* ------------------------------------------------------------------ bounds
MaxLen == 3         \* most entries attached over all signals at once
MaxArgs == 2        \* most arguments of one variadic Connect/Disconnect call
MaxUnits == 2       \* most receivers of a signal that SendAsync is called on

Recv == {1, 2, 3}   \* the receivers NewRecv has made
Sigs == {1, 2, 3}   \* the signal instances
Standalone == {1, 2}        \* the signals New has made, outside any pool
Names == {"a", "b"}         \* the names signals are looked up by
Threads == {"t1", "t2"}     \* the goroutines that call into one pool
Nil == 0            \* the nil Signal of a receiver's back-reference

VARIABLES
    receivers,      \* signal.receivers : [Sigs -> Seq(Recv)]
    rsignal,        \* receiver.signal  : [Recv -> Sigs \cup {Nil}]
    mu,             \* signal.mu        : [Sigs -> "free" or the holder]
    clr,            \* the position of a running Clear
    last,           \* the call that returned last, its arguments and result
    async,          \* a SendAsync in flight: its channel, WaitGroup and goroutines
    m,              \* Pool.m : [Names -> Sigs \cup {Nil}]
    sname,          \* signal.name of the signals the pool has made
    thr             \* the goroutines calling Pool.Get at the same time

vars == <<receivers, rsignal, mu, clr, last, async, m, sname, thr>>

poolVars == <<m, sname, thr>>

\* ------------------------------------------------------------ helpers
RemoveAt(seq, k) == SubSeq(seq, 1, k - 1) \o SubSeq(seq, k + 1, Len(seq))

Range(seq) == {seq[k] : k \in 1..Len(seq)}

ArgLists(lo, hi) == UNION {[1..k -> Recv] : k \in lo..hi}

Attached == Len(receivers[1]) + Len(receivers[2]) + Len(receivers[3])

\* op, sig, args: the call; pre, preRs: receivers and rsignal when it was made;
\* res, errs: what it returned; log: the callbacks it invoked, in order.
\* No SendAsync in flight.
NoAsync == [pc |-> "idle", sig |-> Nil, cap |-> 0, buf |-> <<>>, closed |-> FALSE,
            wg |-> 0, i |-> 0, n |-> 0, units |-> <<>>, got |-> <<>>,
            panic |-> FALSE, pre |-> <<>>]

NoThread == [pc |-> "idle", name |-> "", ret |-> Nil]

\* name: the name a Pool call was given; preM, preNames: m and sname when it was
\* made; visited: the signals a SendGlobal called Send on, in order.
NoCall == [op |-> "none", sig |-> Nil, args |-> <<>>, pre |-> <<>>,
           preRs |-> <<>>, res |-> "none", errs |-> <<>>, log |-> <<>>,
           name |-> "", preM |-> <<>>, preNames |-> <<>>, visited |-> <<>>]

\* An unrecovered panic ends the program.
Crashed == last.res \in {"panic_usage", "panic_index"}

\* The caller makes its next call once it has taken the result of the last one.
Idle == last = NoCall /\ ~clr.active /\ async.pc = "idle"

\* The caller takes the result of the call that returned and goes on.
Resume ==
    /\ last # NoCall
    /\ ~Crashed
    /\ last' = NoCall
    /\ UNCHANGED <<receivers, rsignal, mu, clr, async, poolVars>>

\* ------------------------------------------------------------ Receiver
\* An identity that two receivers can share.
IDShared(r) == r % 2

\* receiver.ID(): the address of the receiver, one per live receiver.
ID(r) == r

\* ------------------------------------------------------------ Signal.Disconnect
\* The inner loop `for _, o := range other` at one value of index.
\* d = [recv: s.receivers, deleted, cleared: receivers given Signal(nil), panic]
RECURSIVE DisconnectInner(_, _, _, _)
DisconnectInner(d, index, other, j) ==
    IF j > Len(other) \/ d.panic THEN d
    ELSE IF index < 0 \/ index >= Len(d.recv)
         THEN [d EXCEPT !.panic = TRUE]       \* s.receivers[index]: out of range
    ELSE IF ID(d.recv[index + 1]) = ID(other[j])
         THEN DisconnectInner([d EXCEPT !.recv = RemoveAt(@, index + 1),
                                        !.deleted = @ + 1,
                                        !.cleared = @ \cup {other[j]}],
                              index, other, j + 1)
         ELSE DisconnectInner(d, index, other, j + 1)

\* The outer loop `for i := range s.receivers`: n is the length when it starts.
RECURSIVE DisconnectOuter(_, _, _, _)
DisconnectOuter(d, i, n, other) ==
    IF i >= n \/ d.panic THEN d
    ELSE DisconnectOuter(DisconnectInner(d, i - d.deleted, other, 1),
                         i + 1, n, other)

SignalDisconnect(recv, other) ==
    DisconnectOuter([recv |-> recv, deleted |-> 0, cleared |-> {}, panic |-> FALSE],
                    0, Len(recv), other)

\* s.Disconnect(other...)
Disconnect(s, other) ==
    /\ Idle
    /\ mu[s] = "free"
    /\ IF Len(other) = 0
       THEN /\ UNCHANGED <<receivers, rsignal>>
            /\ last' = [NoCall EXCEPT !.op = "Disconnect", !.sig = s,
                            !.pre = receivers, !.preRs = rsignal,
                            !.res = "panic_usage"]
       ELSE LET d == SignalDisconnect(receivers[s], other) IN
            /\ receivers' = [receivers EXCEPT ![s] = d.recv]
            /\ rsignal' = [r \in Recv |-> IF r \in d.cleared THEN Nil ELSE rsignal[r]]
            /\ last' = [NoCall EXCEPT !.op = "Disconnect", !.sig = s, !.args = other,
                            !.pre = receivers, !.preRs = rsignal,
                            !.res = IF d.panic THEN "panic_index" ELSE "returned"]
    /\ UNCHANGED <<mu, clr, async, poolVars>>

\* ------------------------------------------------------------ Signal.Connect
RECURSIVE ConnectLoop(_, _, _, _)
ConnectLoop(c, s, args, j) ==
    IF j > Len(args) THEN c
    ELSE ConnectLoop([recv |-> Append(c.recv, args[j]),
                      rs |-> [c.rs EXCEPT ![args[j]] = s]], s, args, j + 1)

\* s.Connect(receivers...)
Connect(s, args) ==
    /\ Idle
    /\ mu[s] = "free"
    /\ Attached + Len(args) <= MaxLen
    /\ LET c == ConnectLoop([recv |-> receivers[s], rs |-> rsignal], s, args, 1) IN
        /\ receivers' = [receivers EXCEPT ![s] = c.recv]
        /\ rsignal' = c.rs
    /\ last' = [NoCall EXCEPT !.op = "Connect", !.sig = s, !.args = args,
                    !.pre = receivers, !.preRs = rsignal, !.res = "nil"]
    /\ UNCHANGED <<mu, clr, async, poolVars>>

\* ------------------------------------------------------------ Receiver.Disconnect
\* r.Disconnect()
RecvDisconnect(r) ==
    /\ Idle
    /\ IF rsignal[r] = Nil
       THEN /\ UNCHANGED <<receivers, rsignal>>
            /\ last' = [NoCall EXCEPT !.op = "RecvDisconnect", !.args = <<r>>,
                            !.pre = receivers, !.preRs = rsignal,
                            !.res = "not_connected"]
       ELSE LET s == rsignal[r]
                d == SignalDisconnect(receivers[s], <<r>>) IN
            /\ mu[s] = "free"
            /\ receivers' = [receivers EXCEPT ![s] = d.recv]
            /\ rsignal' = [x \in Recv |->
                              IF x \in d.cleared \cup {r} THEN Nil ELSE rsignal[x]]
            /\ last' = [NoCall EXCEPT !.op = "RecvDisconnect", !.sig = s,
                            !.args = <<r>>, !.pre = receivers, !.preRs = rsignal,
                            !.res = IF d.panic THEN "panic_index" ELSE "nil"]
    /\ UNCHANGED <<mu, clr, async, poolVars>>

\* ------------------------------------------------------------ Signal.Clear
NoClear == [active |-> FALSE, sig |-> Nil, i |-> 0, preRs |-> <<>>]

\* s.Clear(): s.mu.Lock()
ClearBegin(s) ==
    /\ Idle
    /\ mu[s] = "free"
    /\ mu' = [mu EXCEPT ![s] = "clear"]
    /\ clr' = [active |-> TRUE, sig |-> s, i |-> 1, preRs |-> rsignal]
    /\ UNCHANGED <<receivers, rsignal, last, async, poolVars>>

\* One turn of `for _, receiver := range s.receivers { receiver.Disconnect() }`:
\* the receiver's Disconnect locks the signal its back-reference names.
ClearStep ==
    /\ clr.active
    /\ clr.i <= Len(receivers[clr.sig])
    /\ LET r == receivers[clr.sig][clr.i]
           t == rsignal[r] IN
        IF t = Nil
        THEN UNCHANGED <<receivers, rsignal>>
        ELSE /\ mu[t] = "free"
             /\ LET d == SignalDisconnect(receivers[t], <<r>>) IN
                 /\ receivers' = [receivers EXCEPT ![t] = d.recv]
                 /\ rsignal' = [x \in Recv |->
                                   IF x \in d.cleared \cup {r} THEN Nil ELSE rsignal[x]]
    /\ clr' = [clr EXCEPT !.i = @ + 1]
    /\ UNCHANGED <<mu, last, async, poolVars>>

\* s.receivers = make([]Receiver, 0); the deferred s.mu.Unlock()
ClearEnd ==
    /\ clr.active
    /\ clr.i > Len(receivers[clr.sig])
    /\ receivers' = [receivers EXCEPT ![clr.sig] = <<>>]
    /\ mu' = [mu EXCEPT ![clr.sig] = "free"]
    /\ clr' = NoClear
    /\ last' = [NoCall EXCEPT !.op = "Clear", !.sig = clr.sig,
                    !.pre = receivers, !.preRs = clr.preRs,
                    !.res = "returned"]
    /\ UNCHANGED <<rsignal, async, poolVars>>

\* ------------------------------------------------------------ Signal.Send
\* The loop `for _, receiver := range s.receivers`: outcome[i] says whether the
\* callback of the i-th entry returns a failure. a = [log, errs].
RECURSIVE SendLoopStops(_, _, _, _)
RECURSIVE SendLoop(_, _, _, _)

\* The loop, were it to return at the first failure.
SendLoopStops(recv, outcome, i, a) ==
    IF i > Len(recv) \/ Len(a.errs) > 0 THEN a
    ELSE SendLoopStops(recv, outcome, i + 1,
                  [log |-> Append(a.log, [recv |-> recv[i], failed |-> outcome[i]]),
                   errs |-> IF outcome[i] THEN Append(a.errs, [pos |-> i, recv |-> recv[i]])
                            ELSE a.errs])

SendLoop(recv, outcome, i, a) ==
    IF i > Len(recv) THEN a
    ELSE SendLoop(recv, outcome, i + 1,
                  [log |-> Append(a.log, [recv |-> recv[i], failed |-> outcome[i]]),
                   errs |-> IF outcome[i] THEN Append(a.errs, [pos |-> i, recv |-> recv[i]])
                            ELSE a.errs])

SignalSend(recv, outcome) == SendLoop(recv, outcome, 1, [log |-> <<>>, errs |-> <<>>])

\* The result, were a single failure let through.
SendResultOffByOne(errs) == IF Len(errs) > 1 THEN "composite" ELSE "nil"

\* The error Send returns for the failures collected.
SendResult(errs) == IF Len(errs) > 0 THEN "composite" ELSE "nil"

\* Send, were it to go on with an empty collection.
SendNoEmptyCheck(s) ==
    /\ Idle
    /\ mu[s] = "free"
    /\ \E outcome \in [1..Len(receivers[s]) -> BOOLEAN] :
        LET a == SignalSend(receivers[s], outcome) IN
        last' = [NoCall EXCEPT !.op = "Send", !.sig = s,
                     !.pre = receivers, !.preRs = rsignal,
                     !.res = SendResult(a.errs), !.errs = a.errs,
                     !.log = a.log]
    /\ UNCHANGED <<receivers, rsignal, mu, clr, async, poolVars>>

\* s.Send(value)
Send(s) ==
    /\ Idle
    /\ IF Len(receivers[s]) = 0
       THEN last' = [NoCall EXCEPT !.op = "Send", !.sig = s, !.pre = receivers,
                         !.preRs = rsignal, !.res = "no_receivers"]
       ELSE /\ mu[s] = "free"
            /\ \E outcome \in [1..Len(receivers[s]) -> BOOLEAN] :
                LET a == SignalSend(receivers[s], outcome) IN
                last' = [NoCall EXCEPT !.op = "Send", !.sig = s,
                             !.pre = receivers, !.preRs = rsignal,
                             !.res = SendResult(a.errs), !.errs = a.errs,
                             !.log = a.log]
    /\ UNCHANGED <<receivers, rsignal, mu, clr, async, poolVars>>

\* ------------------------------------------------------------ specification
\* Signals made by New, receivers made by NewRecv, an empty pool.
Init ==
    /\ receivers = [s \in Sigs |-> <<>>]
    /\ rsignal = [r \in Recv |-> Nil]
    /\ mu = [s \in Sigs |-> "free"]
    /\ clr = NoClear
    /\ last = NoCall
    /\ async = NoAsync
    /\ m = [n \in Names |-> Nil]
    /\ sname = [s \in Sigs |-> ""]
    /\ thr = [t \in Threads |-> NoThread]

\* One caller working on signals it made with New.
Next ==
    \/ \E s \in Standalone, args \in ArgLists(1, MaxArgs) : Connect(s, args)
    \/ \E s \in Standalone, other \in ArgLists(0, MaxArgs) : Disconnect(s, other)
    \/ \E r \in Recv : RecvDisconnect(r)
    \/ \E s \in Standalone : ClearBegin(s)
    \/ ClearStep
    \/ ClearEnd
    \/ \E s \in Standalone : Send(s)
    \/ Resume

Spec == Init /\ [][Next]_vars


\* ------------------------------------------------------------ Signal.SendAsync
\* s.SendAsync(value): make(chan error, len(s.receivers)), start the
\* coordinating goroutine, return the channel.
SendAsyncCall(s) ==
    /\ Idle
    /\ Len(receivers[s]) <= MaxUnits
    /\ async' = [NoAsync EXCEPT !.pc = "lock", !.sig = s,
                     !.cap = Len(receivers[s]), !.pre = receivers]
    /\ UNCHANGED <<receivers, rsignal, mu, clr, last, poolVars>>

\* The coordinator: s.mu.Lock(); wg.Add(len(s.receivers)); the range begins.
CoordLock ==
    /\ async.pc = "lock"
    /\ mu[async.sig] = "free"
    /\ mu' = [mu EXCEPT ![async.sig] = "async"]
    /\ async' = [async EXCEPT !.pc = "launch", !.i = 1,
                     !.wg = Len(receivers[async.sig]),
                     !.n = Len(receivers[async.sig])]
    /\ UNCHANGED <<receivers, rsignal, clr, last, poolVars>>

\* The coordinator: go func(receiver, wg) for the next receiver.
CoordLaunch ==
    /\ async.pc = "launch"
    /\ async.i <= async.n
    /\ async' = [async EXCEPT !.i = @ + 1,
                     !.units = Append(@, [recv |-> receivers[async.sig][async.i],
                                          st |-> "run", failed |-> FALSE,
                                          call |-> Nil, arg |-> Nil])]
    /\ UNCHANGED <<receivers, rsignal, mu, clr, last, poolVars>>

\* The coordinator, were it not to wait for its units.
CoordUnlockNoWait ==
    /\ async.pc = "launch"
    /\ async.i > async.n
    /\ mu' = [mu EXCEPT ![async.sig] = "free"]
    /\ async' = [async EXCEPT !.pc = "close"]
    /\ UNCHANGED <<receivers, rsignal, clr, last, poolVars>>

\* The coordinator: wg.Wait() returns, then the deferred s.mu.Unlock().
CoordUnlock ==
    /\ async.pc = "launch"
    /\ async.i > async.n
    /\ async.wg = 0
    /\ mu' = [mu EXCEPT ![async.sig] = "free"]
    /\ async' = [async EXCEPT !.pc = "close"]
    /\ UNCHANGED <<receivers, rsignal, clr, last, poolVars>>

\* The coordinator: the deferred close(errChan), then the deferred wg.Wait().
CoordClose ==
    /\ async.pc = "close"
    /\ async' = [async EXCEPT !.pc = "ended", !.closed = TRUE]
    /\ UNCHANGED <<receivers, rsignal, mu, clr, last, poolVars>>

\* A unit: receiver.Receive(s, value) returns nil or a failure.
UnitReceive(u) ==
    /\ u \in 1..Len(async.units)
    /\ async.units[u].st = "run"
    /\ \E failed \in BOOLEAN :
        async' = [async EXCEPT !.units[u].st = "send", !.units[u].failed = failed]
    /\ UNCHANGED <<receivers, rsignal, mu, clr, last, poolVars>>

\* A unit: errChan <- result. A send on a closed channel panics; a send on a
\* full channel waits.
UnitSend(u) ==
    /\ u \in 1..Len(async.units)
    /\ async.units[u].st = "send"
    /\ IF async.closed
       THEN async' = [async EXCEPT !.panic = TRUE, !.units[u].st = "done"]
       ELSE /\ Len(async.buf) < async.cap
            /\ async' = [async EXCEPT
                            !.buf = Append(@, [recv |-> async.units[u].recv,
                                               failed |-> async.units[u].failed]),
                            !.units[u].st = "sent"]
    /\ UNCHANGED <<receivers, rsignal, mu, clr, last, poolVars>>

\* A unit: the deferred wg.Done().
UnitDone(u) ==
    /\ u \in 1..Len(async.units)
    /\ async.units[u].st = "sent"
    /\ async' = [async EXCEPT !.wg = @ - 1, !.units[u].st = "done"]
    /\ UNCHANGED <<receivers, rsignal, mu, clr, last, poolVars>>

\* The caller: one turn of `for err := range errChan`.
Drain ==
    /\ async.pc # "idle"
    /\ async.buf # <<>>
    /\ async' = [async EXCEPT !.buf = Tail(@), !.got = Append(@, Head(async.buf))]
    /\ UNCHANGED <<receivers, rsignal, mu, clr, last, poolVars>>

\* The caller: the range ends, the channel being closed and empty.
DrainEnd ==
    /\ async.pc # "idle"
    /\ async.closed
    /\ async.buf = <<>>
    /\ last' = [NoCall EXCEPT !.op = "SendAsync", !.sig = async.sig,
                    !.pre = async.pre, !.preRs = rsignal, !.res = "closed",
                    !.log = async.got]
    /\ async' = NoAsync
    /\ UNCHANGED <<receivers, rsignal, mu, clr, poolVars>>

Goroutines ==
    \/ CoordLock
    \/ CoordLaunch
    \/ CoordUnlock
    \/ CoordClose
    \/ \E u \in 1..MaxLen : UnitReceive(u)
    \/ \E u \in 1..MaxLen : UnitSend(u)
    \/ \E u \in 1..MaxLen : UnitDone(u)

\* One caller working on one signal; nothing changes the signal while a
\* SendAsync is in flight.
NextAsync ==
    \/ \E r \in Recv : Connect(1, <<r>>)
    \/ \E r \in Recv : RecvDisconnect(r)
    \/ Send(1)
    \/ Resume
    \/ SendAsyncCall(1)
    \/ Goroutines
    \/ Drain
    \/ DrainEnd

SpecAsync == Init /\ [][NextAsync]_vars

\* The scheduler runs every goroutine that can run; the caller drains.
FairSpecAsync == SpecAsync /\ WF_vars(Goroutines) /\ WF_vars(Drain \/ DrainEnd)


\* ------------------------------------------------------------ callbacks that call back
\* The units whose callback is inside a Connect.
Connecting == {u \in 1..Len(async.units) :
                  async.units[u].st = "call" /\ async.units[u].arg # Nil}

\* A unit: its callback calls t.Connect(r), or with r = Nil
\* t.Disconnect(receiver) for the receiver it runs for; each callback makes one
\* such call at most. The call begins with t.mu.Lock().
UnitCall(u, t, r) ==
    /\ u \in 1..Len(async.units)
    /\ async.units[u].st = "run"
    /\ async.units[u].call = Nil
    /\ r # Nil => Attached + Cardinality(Connecting) < MaxLen
    /\ async' = [async EXCEPT !.units[u].st = "call", !.units[u].call = t,
                              !.units[u].arg = r]
    /\ UNCHANGED <<receivers, rsignal, mu, clr, last, poolVars>>

\* A unit: the Lock() of the call is granted; the Connect or Disconnect runs,
\* unlocks and returns into the callback.
UnitCallRun(u) ==
    /\ u \in 1..Len(async.units)
    /\ async.units[u].st = "call"
    /\ LET t == async.units[u].call
           r == async.units[u].arg IN
        /\ mu[t] = "free"
        /\ IF r # Nil
           THEN LET c == ConnectLoop([recv |-> receivers[t], rs |-> rsignal],
                                     t, <<r>>, 1) IN
                /\ receivers' = [receivers EXCEPT ![t] = c.recv]
                /\ rsignal' = c.rs
           ELSE LET d == SignalDisconnect(receivers[t], <<async.units[u].recv>>) IN
                /\ receivers' = [receivers EXCEPT ![t] = d.recv]
                /\ rsignal' = [x \in Recv |->
                                  IF x \in d.cleared THEN Nil ELSE rsignal[x]]
    /\ async' = [async EXCEPT !.units[u].st = "run"]
    /\ UNCHANGED <<mu, clr, last, poolVars>>

GoroutinesReentrant ==
    \/ Goroutines
    \/ \E u \in 1..MaxLen : UnitCallRun(u)

\* One caller and one signal it dispatches on; callbacks may call Connect and
\* Disconnect on that signal or on another one.
NextReentrant ==
    \/ NextAsync
    \/ \E u \in 1..MaxLen, t \in Standalone, r \in Recv \cup {Nil} : UnitCall(u, t, r)
    \/ \E u \in 1..MaxLen : UnitCallRun(u)

SpecReentrant == Init /\ [][NextReentrant]_vars

\* The scheduler runs every goroutine that can run; the caller drains.
FairSpecReentrant ==
    SpecReentrant /\ WF_vars(GoroutinesReentrant) /\ WF_vars(Drain \/ DrainEnd)

\* ------------------------------------------------------------ SendAsync, channel not read
\* s.Connect(r) called after SendAsync has returned its channel and before the
\* coordinator has reached s.mu.Lock().
AsyncConnect(r) ==
    /\ async.pc = "lock"
    /\ mu[async.sig] = "free"
    /\ Attached < MaxLen
    /\ LET s == async.sig
           c == ConnectLoop([recv |-> receivers[s], rs |-> rsignal], s, <<r>>, 1) IN
        /\ receivers' = [receivers EXCEPT ![s] = c.recv]
        /\ rsignal' = c.rs
    /\ UNCHANGED <<mu, clr, last, async, poolVars>>

\* The caller lets go of the channel of a dispatch that has ended, having read
\* nothing from it.
AsyncAbandon ==
    /\ async.pc = "ended"
    /\ async' = NoAsync
    /\ UNCHANGED <<receivers, rsignal, mu, clr, last, poolVars>>

\* One caller that connects receivers and calls SendAsync without ever reading
\* the channel.
NextUnread ==
    \/ \E r \in Recv : Connect(1, <<r>>)
    \/ Resume
    \/ SendAsyncCall(1)
    \/ \E r \in Recv : AsyncConnect(r)
    \/ Goroutines
    \/ AsyncAbandon

SpecUnread == Init /\ [][NextUnread]_vars

\* The scheduler runs every goroutine that can run.
FairSpecUnread == SpecUnread /\ WF_vars(Goroutines)

\* ------------------------------------------------------------ Pool
\* The signals the pool holds.
PoolSigs(mm) == {mm[n] : n \in Names} \ {Nil}

\* &signal{name: name, ...}: an instance that did not exist before.
Unmade == {s \in Sigs : sname[s] = ""}
NewSignal == CHOOSE s \in Unmade : \A x \in Unmade : s <= x

\* &receiver{cb: r}: a receiver that did not exist before.
Unused == {r \in Recv : rsignal[r] = Nil /\ \A s \in Sigs : r \notin Range(receivers[s])}
NewReceiver == CHOOSE r \in Unused : \A x \in Unused : r <= x

\* The callbacks that fail in one dispatch: pairs <<signal, position>>.
FailSets == SUBSET {<<s, i>> \in Sigs \X (1..MaxLen) : i <= Len(receivers[s])}
OutcomeOf(fail, s) == [i \in 1..Len(receivers[s]) |-> <<s, i>> \in fail]

TagLog(log, s) ==
    [k \in 1..Len(log) |-> [sig |-> s, recv |-> log[k].recv, failed |-> log[k].failed]]

\* signal.Send of the pool's signals: the error carries the count of failures.
DynSend(s, outcome) ==
    IF Len(receivers[s]) = 0
    THEN [res |-> "no_receivers", log |-> <<>>]
    ELSE LET a == SignalSend(receivers[s], outcome) IN
         [res |-> IF Len(a.errs) > 0 THEN "send_failed" ELSE "nil",
          log |-> TagLog(a.log, s)]

PoolCall(op, name) ==
    [NoCall EXCEPT !.op = op, !.name = name, !.pre = receivers, !.preRs = rsignal,
                   !.preM = m, !.preNames = sname]

\* m.Get(name)
PoolGet(name) ==
    /\ Idle
    /\ IF m[name] # Nil
       THEN /\ last' = [PoolCall("Get", name) EXCEPT !.sig = m[name], !.res = "signal"]
            /\ UNCHANGED <<m, sname>>
       ELSE /\ Unmade # {}
            /\ sname' = [sname EXCEPT ![NewSignal] = name]
            /\ m' = [m EXCEPT ![name] = NewSignal]
            /\ last' = [PoolCall("Get", name) EXCEPT !.sig = NewSignal, !.res = "signal"]
    /\ UNCHANGED <<receivers, rsignal, mu, clr, async, thr>>

\* m.Delete(name)
PoolDelete(name) ==
    /\ Idle
    /\ m' = [m EXCEPT ![name] = Nil]
    /\ last' = [PoolCall("Delete", name) EXCEPT !.sig = m[name], !.res = "returned"]
    /\ UNCHANGED <<receivers, rsignal, mu, clr, async, sname, thr>>

\* m.Listen(name, r): m.Get(name).Connect(&receiver{cb: r})
PoolListen(name) ==
    /\ Idle
    /\ Unused # {}
    /\ Attached < MaxLen
    /\ m[name] # Nil \/ Unmade # {}
    /\ LET s == IF m[name] # Nil THEN m[name] ELSE NewSignal
           c == ConnectLoop([recv |-> receivers[s], rs |-> rsignal], s,
                            <<NewReceiver>>, 1) IN
        /\ mu[s] = "free"
        /\ sname' = [sname EXCEPT ![s] = name]
        /\ m' = [m EXCEPT ![name] = s]
        /\ receivers' = [receivers EXCEPT ![s] = c.recv]
        /\ rsignal' = c.rs
        /\ last' = [PoolCall("Listen", name) EXCEPT !.sig = s,
                        !.args = <<NewReceiver>>, !.res = "returned"]
    /\ UNCHANGED <<mu, clr, async, thr>>

\* Pool.Send, were it to store a signal for a name it does not find.
PoolSendCreates(name) ==
    /\ Idle
    /\ m[name] # Nil \/ Unmade # {}
    /\ LET s == IF m[name] # Nil THEN m[name] ELSE NewSignal IN
        /\ mu[s] = "free"
        /\ sname' = [sname EXCEPT ![s] = name]
        /\ m' = [m EXCEPT ![name] = s]
        /\ \E fail \in SUBSET ({s} \X (1..Len(receivers[s]))) :
            LET o == DynSend(s, OutcomeOf(fail, s)) IN
            last' = [PoolCall("PoolSend", name) EXCEPT !.sig = s,
                         !.res = IF m[name] = Nil THEN "not_found" ELSE o.res,
                         !.log = o.log]
    /\ UNCHANGED <<receivers, rsignal, mu, clr, async, thr>>

\* m.Send(name, value...)
PoolSend(name) ==
    /\ Idle
    /\ IF m[name] = Nil
       THEN last' = [PoolCall("PoolSend", name) EXCEPT !.res = "not_found"]
       ELSE /\ mu[m[name]] = "free"
            /\ \E fail \in SUBSET ({m[name]} \X (1..Len(receivers[m[name]]))) :
                LET o == DynSend(m[name], OutcomeOf(fail, m[name])) IN
                last' = [PoolCall("PoolSend", name) EXCEPT !.sig = m[name],
                             !.res = o.res, !.log = o.log]
    /\ UNCHANGED <<receivers, rsignal, mu, clr, async, poolVars>>

\* CreateOrSend, were it to leave the signal it made out of the map.
CreateOrSendNoStore(name) ==
    /\ Idle
    /\ m[name] # Nil \/ Unmade # {}
    /\ LET s == IF m[name] # Nil THEN m[name] ELSE NewSignal IN
        /\ mu[s] = "free"
        /\ sname' = [sname EXCEPT ![s] = name]
        /\ \E fail \in SUBSET ({s} \X (1..Len(receivers[s]))) :
            LET o == DynSend(s, OutcomeOf(fail, s)) IN
            last' = [PoolCall("CreateOrSend", name) EXCEPT !.sig = s,
                         !.res = o.res, !.log = o.log]
    /\ UNCHANGED <<receivers, rsignal, mu, clr, async, m, thr>>

\* CreateOrSend, were it to give up on a name it does not find, as Pool.Send does.
CreateOrSendNotFound(name) ==
    /\ Idle
    /\ IF m[name] = Nil
       THEN last' = [PoolCall("CreateOrSend", name) EXCEPT !.res = "not_found"]
       ELSE /\ mu[m[name]] = "free"
            /\ \E fail \in SUBSET ({m[name]} \X (1..Len(receivers[m[name]]))) :
                LET o == DynSend(m[name], OutcomeOf(fail, m[name])) IN
                last' = [PoolCall("CreateOrSend", name) EXCEPT !.sig = m[name],
                             !.res = o.res, !.log = o.log]
    /\ UNCHANGED <<receivers, rsignal, mu, clr, async, poolVars>>

\* m.CreateOrSend(name, value...)
CreateOrSend(name) ==
    /\ Idle
    /\ m[name] # Nil \/ Unmade # {}
    /\ LET s == IF m[name] # Nil THEN m[name] ELSE NewSignal IN
        /\ mu[s] = "free"
        /\ sname' = [sname EXCEPT ![s] = name]
        /\ m' = [m EXCEPT ![name] = s]
        /\ \E fail \in SUBSET ({s} \X (1..Len(receivers[s]))) :
            LET o == DynSend(s, OutcomeOf(fail, s)) IN
            last' = [PoolCall("CreateOrSend", name) EXCEPT !.sig = s,
                         !.res = o.res, !.log = o.log]
    /\ UNCHANGED <<receivers, rsignal, mu, clr, async, thr>>

\* m.Range with SendGlobal's callback `err = signal.Send(value...); return
\* err == nil`, over the names in the order the map yields them.
\* a = [res, log, visited]
RECURSIVE RangeSendNoBreak(_, _, _, _)
RECURSIVE RangeSend(_, _, _, _)

\* The range, were the callback to return true always.
RangeSendNoBreak(order, k, fail, a) ==
    IF k > Len(order) THEN a
    ELSE LET s == m[order[k]]
             o == DynSend(s, OutcomeOf(fail, s)) IN
         RangeSendNoBreak(order, k + 1, fail,
                          [res |-> o.res, log |-> a.log \o o.log,
                           visited |-> Append(a.visited, s)])

RangeSend(order, k, fail, a) ==
    IF k > Len(order) THEN a
    ELSE LET s == m[order[k]]
             o == DynSend(s, OutcomeOf(fail, s))
             b == [res |-> o.res, log |-> a.log \o o.log,
                   visited |-> Append(a.visited, s)] IN
         IF o.res # "nil" THEN b
         ELSE RangeSend(order, k + 1, fail, b)

\* The orders in which `range m.m` can yield the names present.
MapOrders ==
    LET present == {n \in Names : m[n] # Nil} IN
    {o \in [1..Cardinality(present) -> present] :
        \A i, j \in 1..Cardinality(present) : i # j => o[i] # o[j]}

\* m.SendGlobal(value...)
SendGlobal ==
    /\ Idle
    /\ \A s \in PoolSigs(m) : mu[s] = "free"
    /\ \E order \in MapOrders, fail \in FailSets :
        LET a == RangeSend(order, 1, fail,
                           [res |-> "nil", log |-> <<>>, visited |-> <<>>]) IN
        last' = [PoolCall("SendGlobal", "") EXCEPT !.res = a.res, !.log = a.log,
                     !.visited = a.visited]
    /\ UNCHANGED <<receivers, rsignal, mu, clr, async, poolVars>>

\* One caller working on one pool.
NextPool ==
    \/ \E name \in Names : PoolGet(name)
    \/ \E name \in Names : PoolDelete(name)
    \/ \E name \in Names : PoolListen(name)
    \/ \E name \in Names : PoolSend(name)
    \/ \E name \in Names : CreateOrSend(name)
    \/ SendGlobal
    \/ \E r \in Recv : RecvDisconnect(r)
    \/ Resume

SpecPool == Init /\ [][NextPool]_vars


\* ------------------------------------------------------------ concurrent Pool.Get
\* m.Get(name), first half: m.load(name) under the read lock.
GetLoad(t, name) ==
    /\ thr[t].pc = "idle"
    /\ thr' = [thr EXCEPT ![t] =
                  IF m[name] # Nil
                  THEN [pc |-> "done", name |-> name, ret |-> m[name]]
                  ELSE [pc |-> "miss", name |-> name, ret |-> Nil]]
    /\ UNCHANGED <<receivers, rsignal, mu, clr, last, async, m, sname>>

\* m.Get(name), second half after a miss: make a signal, m.store(name, s)
\* under the write lock, return s.
GetStore(t) ==
    /\ thr[t].pc = "miss"
    /\ Unmade # {}
    /\ sname' = [sname EXCEPT ![NewSignal] = thr[t].name]
    /\ m' = [m EXCEPT ![thr[t].name] = NewSignal]
    /\ thr' = [thr EXCEPT ![t] = [pc |-> "done", name |-> thr[t].name,
                                  ret |-> NewSignal]]
    /\ UNCHANGED <<receivers, rsignal, mu, clr, last, async>>

\* The goroutine drops the signal it got and may call again.
GetForget(t) ==
    /\ thr[t].pc = "done"
    /\ thr' = [thr EXCEPT ![t] = NoThread]
    /\ UNCHANGED <<receivers, rsignal, mu, clr, last, async, m, sname>>

\* Goroutines that call Get on one pool at the same time; nothing is deleted.
NextGet ==
    \/ \E t \in Threads, name \in Names : GetLoad(t, name)
    \/ \E t \in Threads : GetStore(t)
    \/ \E t \in Threads : GetForget(t)

SpecGet == Init /\ [][NextGet]_vars

\* ------------------------------------------------------------ signals held by name
\* A caller keeps the signals Get gave it: thr[t] = [pc, name, ret, stale], stale
\* saying that Delete(name) was called after this Get returned.

\* Get, were it to make a signal at every call.
HandleGetAlwaysNew(t, name) ==
    /\ Idle
    /\ thr[t].pc = "idle"
    /\ Unmade # {}
    /\ sname' = [sname EXCEPT ![NewSignal] = name]
    /\ m' = [m EXCEPT ![name] = NewSignal]
    /\ last' = [PoolCall("Get", name) EXCEPT !.sig = NewSignal, !.res = "signal"]
    /\ thr' = [thr EXCEPT ![t] = [pc |-> "done", name |-> name, ret |-> NewSignal,
                                  stale |-> FALSE]]
    /\ UNCHANGED <<receivers, rsignal, mu, clr, async>>

\* h := m.Get(name), load and store run by one caller without interruption.
HandleGet(t, name) ==
    /\ Idle
    /\ thr[t].pc = "idle"
    /\ m[name] # Nil \/ Unmade # {}
    /\ LET s == IF m[name] # Nil THEN m[name] ELSE NewSignal IN
        /\ sname' = [sname EXCEPT ![s] = name]
        /\ m' = [m EXCEPT ![name] = s]
        /\ last' = [PoolCall("Get", name) EXCEPT !.sig = s, !.res = "signal"]
        /\ thr' = [thr EXCEPT ![t] = [pc |-> "done", name |-> name, ret |-> s,
                                      stale |-> FALSE]]
    /\ UNCHANGED <<receivers, rsignal, mu, clr, async>>

\* Delete, were it to empty the signal it removes.
HandleDeleteClears(name) ==
    /\ Idle
    /\ m' = [m EXCEPT ![name] = Nil]
    /\ receivers' = [s \in Sigs |-> IF s = m[name] THEN <<>> ELSE receivers[s]]
    /\ last' = [PoolCall("Delete", name) EXCEPT !.sig = m[name], !.res = "returned"]
    /\ thr' = [t \in Threads |->
                  IF thr[t].pc = "done" /\ thr[t].name = name
                  THEN [thr[t] EXCEPT !.stale = TRUE] ELSE thr[t]]
    /\ UNCHANGED <<rsignal, mu, clr, async, sname>>

\* m.Delete(name), the caller still holding the signals it got before.
HandleDelete(name) ==
    /\ Idle
    /\ m' = [m EXCEPT ![name] = Nil]
    /\ last' = [PoolCall("Delete", name) EXCEPT !.sig = m[name], !.res = "returned"]
    /\ thr' = [t \in Threads |->
                  IF thr[t].pc = "done" /\ thr[t].name = name
                  THEN [thr[t] EXCEPT !.stale = TRUE] ELSE thr[t]]
    /\ UNCHANGED <<receivers, rsignal, mu, clr, async, sname>>

\* h.Connect(r), r a receiver that is attached nowhere
HandleConnect(t, r) ==
    /\ thr[t].pc = "done"
    /\ r \in Unused
    /\ Connect(thr[t].ret, <<r>>)

\* h.Send(value...)
HandleSend(t) ==
    /\ Idle
    /\ thr[t].pc = "done"
    /\ LET s == thr[t].ret IN
        /\ Len(receivers[s]) # 0 => mu[s] = "free"
        /\ \E fail \in SUBSET ({s} \X (1..Len(receivers[s]))) :
            LET o == DynSend(s, OutcomeOf(fail, s)) IN
            last' = [PoolCall("Send", thr[t].name) EXCEPT !.sig = s,
                         !.res = o.res, !.log = o.log]
    /\ UNCHANGED <<receivers, rsignal, mu, clr, async, poolVars>>

\* One caller working on one pool through the signals it holds.
NextHandle ==
    \/ \E t \in Threads, name \in Names : HandleGet(t, name)
    \/ \E name \in Names : HandleDelete(name)
    \/ \E t \in Threads, r \in Recv : HandleConnect(t, r)
    \/ \E t \in Threads : HandleSend(t)
    \/ \E t \in Threads : GetForget(t)
    \/ \E r \in Recv : RecvDisconnect(r)
    \/ Resume

SpecHandle == Init /\ [][NextHandle]_vars

\* ------------------------------------------------------------ concurrent Send
\* Goroutines that call s.Send(value) while the caller changes the signals:
\* thr[t] = [pc, name, ret: the signal, snap: the slice ranged over, i, log, res].

ConcRecv == {1, 2}  \* the receivers in use while goroutines send

\* s.Send(value): `if len(s.receivers) == 0 { return e("no receivers") }`, read
\* without the lock.
SendCheck(t, s) ==
    /\ thr[t].pc = "idle"
    /\ thr' = [thr EXCEPT ![t] =
                  [pc |-> IF Len(receivers[s]) = 0 THEN "sent" ELSE "lock",
                   name |-> "", ret |-> s, snap |-> <<>>, i |-> 0, log |-> <<>>,
                   call |-> Nil, arg |-> Nil, called |-> 0,
                   res |-> IF Len(receivers[s]) = 0 THEN "no_receivers" ELSE "none"]]
    /\ UNCHANGED <<receivers, rsignal, mu, clr, last, async, m, sname>>

\* Send, were it to start its loop without the lock.
SendLockNoWait(t) ==
    /\ thr[t].pc = "lock"
    /\ thr' = [thr EXCEPT ![t].pc = "loop", ![t].i = 1,
                          ![t].snap = receivers[thr[t].ret]]
    /\ UNCHANGED <<receivers, rsignal, mu, clr, last, async, m, sname>>

\* s.mu.Lock(); the range statement takes the slice.
SendLock(t) ==
    /\ thr[t].pc = "lock"
    /\ mu[thr[t].ret] = "free"
    /\ mu' = [mu EXCEPT ![thr[t].ret] = t]
    /\ thr' = [thr EXCEPT ![t].pc = "loop", ![t].i = 1,
                          ![t].snap = receivers[thr[t].ret]]
    /\ UNCHANGED <<receivers, rsignal, clr, last, async, m, sname>>

\* One turn of the loop: err = receiver.Receive(s, value).
SendStep(t) ==
    /\ thr[t].pc = "loop"
    /\ thr[t].i <= Len(thr[t].snap)
    /\ \E failed \in BOOLEAN :
        thr' = [thr EXCEPT ![t].i = @ + 1,
                           ![t].log = Append(@, [recv |-> thr[t].snap[thr[t].i],
                                                 failed |-> failed])]
    /\ UNCHANGED <<receivers, rsignal, mu, clr, last, async, m, sname>>

\* The loop is over: the result is made, the deferred s.mu.Unlock() runs.
SendReturn(t) ==
    /\ thr[t].pc = "loop"
    /\ thr[t].i > Len(thr[t].snap)
    /\ mu' = [mu EXCEPT ![thr[t].ret] = IF @ = t THEN "free" ELSE @]
    /\ thr' = [thr EXCEPT ![t].pc = "sent", ![t].snap = <<>>, ![t].i = 0,
                          ![t].res = IF \E k \in 1..Len(thr[t].log) :
                                             thr[t].log[k].failed
                                        THEN "composite" ELSE "nil"]
    /\ UNCHANGED <<receivers, rsignal, clr, last, async, m, sname>>

\* The goroutine has taken the result and may call again.
SendTaken(t) ==
    /\ thr[t].pc = "sent"
    /\ thr' = [thr EXCEPT ![t] = NoThread]
    /\ UNCHANGED <<receivers, rsignal, mu, clr, last, async, m, sname>>

\* Two goroutines that send on one signal, and the caller that meanwhile
\* connects receivers to signals that do not hold them yet, disconnects and
\* clears.
NextConc ==
    \/ \E t \in Threads : SendCheck(t, 1)
    \/ \E t \in Threads : SendLock(t)
    \/ \E t \in Threads : SendStep(t)
    \/ \E t \in Threads : SendReturn(t)
    \/ \E t \in Threads : SendTaken(t)
    \/ \E s \in Standalone, r \in ConcRecv :
           r \notin Range(receivers[s]) /\ Connect(s, <<r>>)
    \/ \E s \in Standalone, r \in ConcRecv : Disconnect(s, <<r>>)
    \/ \E r \in ConcRecv : RecvDisconnect(r)
    \/ \E s \in Standalone : ClearBegin(s)
    \/ ClearStep
    \/ ClearEnd
    \/ Resume

SpecConc == Init /\ [][NextConc]_vars

\* ------------------------------------------------------------ Send with callbacks that call back
\* The callback of the entry being invoked calls target.Connect(r); every
\* callback makes one call at most. The call begins with target.mu.Lock().
SendCallConnect(t, target, r) ==
    /\ thr[t].pc = "loop"
    /\ thr[t].i <= Len(thr[t].snap)
    /\ thr[t].called < thr[t].i
    /\ Attached < MaxLen
    /\ thr' = [thr EXCEPT ![t].pc = "call", ![t].call = target, ![t].arg = r,
                          ![t].called = thr[t].i]
    /\ UNCHANGED <<receivers, rsignal, mu, clr, last, async, m, sname>>

\* The callback of the entry being invoked calls Disconnect() on its own
\* receiver, as a handler that runs once does: that is r.signal.Disconnect(r),
\* or the not-connected failure when r.signal is nil.
SendCallDisconnect(t) ==
    /\ thr[t].pc = "loop"
    /\ thr[t].i <= Len(thr[t].snap)
    /\ thr[t].called < thr[t].i
    /\ thr' = [thr EXCEPT ![t].pc = "call",
                          ![t].call = rsignal[thr[t].snap[thr[t].i]],
                          ![t].arg = Nil, ![t].called = thr[t].i]
    /\ UNCHANGED <<receivers, rsignal, mu, clr, last, async, m, sname>>

\* The Lock() of the call is granted: the Connect or Disconnect runs, unlocks
\* and returns into the callback.
SendCallRun(t) ==
    /\ thr[t].pc = "call"
    /\ LET target == thr[t].call
           r == thr[t].arg
           own == thr[t].snap[thr[t].i] IN
        IF target = Nil
        THEN UNCHANGED <<receivers, rsignal>>
        ELSE /\ mu[target] = "free"
             /\ IF r # Nil
                THEN LET c == ConnectLoop([recv |-> receivers[target], rs |-> rsignal],
                                          target, <<r>>, 1) IN
                     /\ receivers' = [receivers EXCEPT ![target] = c.recv]
                     /\ rsignal' = c.rs
                ELSE LET d == SignalDisconnect(receivers[target], <<own>>) IN
                     /\ receivers' = [receivers EXCEPT ![target] = d.recv]
                     /\ rsignal' = [x \in Recv |->
                                       IF x \in d.cleared \cup {own} THEN Nil
                                       ELSE rsignal[x]]
    /\ thr' = [thr EXCEPT ![t].pc = "loop"]
    /\ UNCHANGED <<mu, clr, last, async, m, sname>>

\* The steps of the goroutine that sends.
SenderReentrant ==
    \/ SendLock("t1")
    \/ SendStep("t1")
    \/ SendReturn("t1")
    \/ SendCallRun("t1")

\* One goroutine that sends on signal 1, its callbacks calling Connect on either
\* signal or Disconnect() on their receiver, and the caller that connects.
NextSendReentrant ==
    \/ SendCheck("t1", 1)
    \/ SenderReentrant
    \/ SendTaken("t1")
    \/ \E target \in Standalone, r \in ConcRecv : SendCallConnect("t1", target, r)
    \/ SendCallDisconnect("t1")
    \/ \E s \in Standalone, r \in ConcRecv :
           r \notin Range(receivers[s]) /\ Connect(s, <<r>>)
    \/ Resume

SpecSendReentrant == Init /\ [][NextSendReentrant]_vars

\* The scheduler runs the sending goroutine whenever it can run.
FairSpecSendReentrant == SpecSendReentrant /\ WF_vars(SenderReentrant)

\* ------------------------------------------------------------ concurrent Listen and CreateOrSend
\* m.Listen(name, r), after its m.Get(name) has returned: Connect(&receiver{cb: r})
\* on the signal Get gave, and Listen returns.
ListenConnect(t) ==
    /\ thr[t].pc = "done"
    /\ Unused # {}
    /\ Attached < MaxLen
    /\ mu[thr[t].ret] = "free"
    /\ LET s == thr[t].ret
           c == ConnectLoop([recv |-> receivers[s], rs |-> rsignal], s,
                            <<NewReceiver>>, 1) IN
        /\ receivers' = [receivers EXCEPT ![s] = c.recv]
        /\ rsignal' = c.rs
        /\ thr' = [thr EXCEPT ![t] = [pc |-> "listened", name |-> thr[t].name,
                                      ret |-> s, recv |-> NewReceiver]]
    /\ UNCHANGED <<mu, clr, last, async, m, sname>>

\* m.CreateOrSend(name, value...), after its load and store, which are those of
\* Get: `return s.Send(value...)`.
CreateOrSendTail(t) ==
    /\ thr[t].pc = "done"
    /\ LET s == thr[t].ret IN
        /\ Len(receivers[s]) # 0 => mu[s] = "free"
        /\ \E fail \in SUBSET ({s} \X (1..Len(receivers[s]))) :
            LET o == DynSend(s, OutcomeOf(fail, s)) IN
            thr' = [thr EXCEPT ![t] = [pc |-> "sent", name |-> thr[t].name,
                                       ret |-> s, res |-> o.res, log |-> o.log]]
    /\ UNCHANGED <<receivers, rsignal, mu, clr, last, async, m, sname>>

\* Goroutines that call Get, Listen and CreateOrSend on one pool at the same
\* time; nothing is deleted, disconnected or cleared.
NextListen ==
    \/ \E t \in Threads, name \in Names : GetLoad(t, name)
    \/ \E t \in Threads : GetStore(t)
    \/ \E t \in Threads : GetForget(t)
    \/ \E t \in Threads : ListenConnect(t)
    \/ \E t \in Threads : CreateOrSendTail(t)
    \/ \E t \in Threads : SendTaken(t)

SpecListen == Init /\ [][NextListen]_vars

\* ------------------------------------------------------------ SendGlobal with callbacks that call the pool
\* Pool.mu is read-locked by the goroutine that is inside m.Range.
RLocked == \E t \in Threads : thr[t].pc \in {"range", "gcall"}

PoolOps == {"Get", "Listen", "CreateOrSend", "Delete"}

\* m.SendGlobal(value...): m.Range takes m.mu.RLock() and begins to range over
\* the map, in one of the orders the map can yield.
GlobalBegin(t) ==
    /\ thr[t].pc = "idle"
    /\ last = NoCall
    /\ \E order \in MapOrders :
        thr' = [thr EXCEPT ![t] = [pc |-> "range", name |-> "", ret |-> Nil,
                                   order |-> order, k |-> 1, res |-> "nil",
                                   log |-> <<>>, op |-> "none", called |-> 0]]
    /\ UNCHANGED <<receivers, rsignal, mu, clr, last, async, m, sname>>

\* A callback of the signal being visited calls a method of the pool: Get or
\* Delete of any name, Listen or CreateOrSend of a name the pool does not hold.
\* One such call at most is made during the Send on one signal.
GlobalCall(t, op, name) ==
    /\ thr[t].pc = "range"
    /\ thr[t].k <= Len(thr[t].order)
    /\ receivers[m[thr[t].order[thr[t].k]]] # <<>>
    /\ thr[t].called < thr[t].k
    /\ op \in {"Listen", "CreateOrSend"} => m[name] = Nil
    /\ thr' = [thr EXCEPT ![t].pc = "gcall", ![t].op = op, ![t].name = name,
                          ![t].called = thr[t].k]
    /\ UNCHANGED <<receivers, rsignal, mu, clr, last, async, m, sname>>

\* The call runs and returns into the callback. load finds a name under the
\* read lock; store and Delete wait in m.mu.Lock() until no goroutine holds the
\* read lock.
GlobalCallRun(t) ==
    /\ thr[t].pc = "gcall"
    /\ LET op == thr[t].op
           name == thr[t].name IN
        IF op = "Delete"
        THEN /\ ~RLocked
             /\ m' = [m EXCEPT ![name] = Nil]
             /\ UNCHANGED <<receivers, rsignal, sname>>
        ELSE IF m[name] # Nil
        THEN UNCHANGED <<receivers, rsignal, m, sname>>
        ELSE /\ ~RLocked
             /\ Unmade # {}
             /\ sname' = [sname EXCEPT ![NewSignal] = name]
             /\ m' = [m EXCEPT ![name] = NewSignal]
             /\ IF op = "Listen"
                THEN /\ Unused # {}
                     /\ receivers' = [receivers EXCEPT ![NewSignal] = <<NewReceiver>>]
                     /\ rsignal' = [rsignal EXCEPT ![NewReceiver] = NewSignal]
                ELSE UNCHANGED <<receivers, rsignal>>
    /\ thr' = [thr EXCEPT ![t].pc = "range"]
    /\ UNCHANGED <<mu, clr, last, async>>

\* The callback `err = signal.Send(value...); return err == nil` returns for the
\* signal being visited: the range goes on after a nil and breaks otherwise.
GlobalVisit(t) ==
    /\ thr[t].pc = "range"
    /\ thr[t].k <= Len(thr[t].order)
    /\ LET s == m[thr[t].order[thr[t].k]] IN
        /\ Len(receivers[s]) # 0 => mu[s] = "free"
        /\ \E fail \in SUBSET ({s} \X (1..Len(receivers[s]))) :
            LET o == DynSend(s, OutcomeOf(fail, s)) IN
            thr' = [thr EXCEPT ![t].log = @ \o o.log, ![t].res = o.res,
                               ![t].k = IF o.res = "nil" THEN @ + 1
                                        ELSE Len(thr[t].order) + 1]
    /\ UNCHANGED <<receivers, rsignal, mu, clr, last, async, m, sname>>

\* The range is over: m.mu.RUnlock(), SendGlobal returns err.
GlobalEnd(t) ==
    /\ thr[t].pc = "range"
    /\ thr[t].k > Len(thr[t].order)
    /\ thr' = [thr EXCEPT ![t].pc = "sent"]
    /\ UNCHANGED <<receivers, rsignal, mu, clr, last, async, m, sname>>

\* The steps of the goroutine that is inside SendGlobal.
GlobalSteps ==
    \/ GlobalCallRun("t1")
    \/ GlobalVisit("t1")
    \/ GlobalEnd("t1")

\* One goroutine that fills a pool and calls SendGlobal, the callbacks calling
\* methods of the pool.
NextGlobal ==
    \/ \E name \in Names : thr["t1"].pc = "idle" /\ PoolListen(name)
    \/ \E name \in Names : thr["t1"].pc = "idle" /\ PoolGet(name)
    \/ \E r \in Recv : thr["t1"].pc = "idle" /\ RecvDisconnect(r)
    \/ Resume
    \/ GlobalBegin("t1")
    \/ \E op \in PoolOps, name \in Names : GlobalCall("t1", op, name)
    \/ GlobalSteps
    \/ SendTaken("t1")

SpecGlobal == Init /\ [][NextGlobal]_vars

\* The scheduler runs the goroutine whenever it can run.
FairSpecGlobal == SpecGlobal /\ WF_vars(GlobalSteps)

\* ------------------------------------------------------------ claims
Keep(seq, gone) == SelectSeq(seq, LAMBDA r : r \notin gone)

\* C1: a Signal.Disconnect with one or more arguments, in any choice and order,
\* returns normally, leaves exactly the receivers that match no argument, in
\* their previous order, and leaves every removed receiver's back-reference nil.
C1_DisconnectRemovesAll ==
    (last.op = "Disconnect" /\ Len(last.args) >= 1) =>
        /\ last.res = "returned"
        /\ receivers[last.sig] = Keep(last.pre[last.sig], Range(last.args))
        /\ \A r \in Range(last.pre[last.sig]) \cap Range(last.args) :
               rsignal[r] = Nil

\* C2: Clear terminates whatever the number of attached receivers (a Clear that
\* has begun can always take its next step), and once it has returned the
\* collection is empty and every receiver that was attached has a nil
\* back-reference.
C2_ClearTerminates ==
    /\ clr.active => ENABLED (ClearStep \/ ClearEnd)
    /\ last.op = "Clear" =>
           /\ receivers[last.sig] = <<>>
           /\ \A r \in Range(last.pre[last.sig]) : rsignal[r] = Nil


LogRecv(log) == [k \in 1..Len(log) |-> log[k].recv]

Failed(log) == {k \in 1..Len(log) : log[k].failed}

\* C4: a Send on a signal with one or more receivers invokes every attached
\* entry exactly once, in attachment order, whichever of them fail.
C4_SendInOrder ==
    (last.op = "Send" /\ last.pre[last.sig] # <<>>) =>
        LogRecv(last.log) = last.pre[last.sig]

C4_Witness ==
    /\ last.op = "Send"
    /\ Len(last.log) = 3
    /\ last.log[1].failed
    /\ Cardinality(Range(LogRecv(last.log))) = 3

\* C5: a Send on N >= 1 receivers of which K fail returns nil when K = 0 and
\* otherwise a composite error listing exactly the K failures, in the
\* attachment order of the receivers that produced them.
C5_SendResult ==
    (last.op = "Send" /\ last.pre[last.sig] # <<>>) =>
        LET K == Cardinality(Failed(last.log)) IN
        /\ K = 0 => last.res = "nil" /\ last.errs = <<>>
        /\ K > 0 =>
            /\ last.res = "composite"
            /\ Len(last.errs) = K
            /\ \A k \in 1..Len(last.errs) :
                /\ last.errs[k].pos \in Failed(last.log)
                /\ last.errs[k].recv = last.pre[last.sig][last.errs[k].pos]
                /\ \A j \in 1..(k - 1) : last.errs[j].pos < last.errs[k].pos

C5_Witness ==
    /\ last.op = "Send"
    /\ Len(last.log) = 3
    /\ last.res = "composite"
    /\ Len(last.errs) = 2
    /\ ~last.log[2].failed

\* C8: Receiver.Disconnect() on a receiver without a signal returns the
\* not-connected failure and changes nothing; on a connected receiver it takes
\* the receiver out of its signal's collection, sets the back-reference to nil
\* and returns nil; and every receiver a Signal.Disconnect took out has a nil
\* back-reference, so a Disconnect() that follows either one is not-connected.
C8_RecvDisconnect ==
    /\ last.op = "RecvDisconnect" =>
        LET r == last.args[1]
            s == last.preRs[r] IN
        IF s = Nil
        THEN /\ last.res = "not_connected"
             /\ receivers = last.pre
             /\ rsignal = last.preRs
        ELSE /\ last.res = "nil"
             /\ receivers = [last.pre EXCEPT ![s] = Keep(@, {r})]
             /\ rsignal[r] = Nil
    /\ last.op = "Disconnect" =>
        \A r \in Range(last.pre[last.sig]) \ Range(receivers[last.sig]) :
            rsignal[r] = Nil

C8_Witness ==
    /\ last.op = "RecvDisconnect"
    /\ last.res = "nil"
    /\ Len(last.pre[last.sig]) = 3
    /\ Len(receivers[last.sig]) = 2

Count(seq, r) == Cardinality({k \in 1..Len(seq) : seq[k] = r})

SameBag(a, b) == Len(a) = Len(b) /\ \A r \in Recv : Count(a, r) = Count(b, r)

Pushed == Len(async.buf) + Len(async.got)

C6_Safety ==
    /\ ~async.panic
    /\ Pushed <= async.cap
    /\ async.closed =>
        /\ Pushed = async.cap
        /\ Len(async.units) = async.cap
        /\ \A u \in 1..Len(async.units) : async.units[u].st = "done"
    /\ last.op = "SendAsync" =>
        SameBag(LogRecv(last.log), last.pre[last.sig])

\* C6: with nothing changing the signal meanwhile, a SendAsync on N receivers
\* delivers exactly N results, one for each attached entry, in any order; the
\* channel is closed only after all N were pushed, no unit sends on the closed
\* channel, and the channel is closed in the end.
C6_SendAsync ==
    /\ []C6_Safety
    /\ (async.pc # "idle") ~> async.closed

C6_Witness ==
    /\ last.op = "SendAsync"
    /\ Len(last.log) = 2
    /\ LogRecv(last.log) # last.pre[last.sig]
    /\ last.log[1].failed
    /\ ~last.log[2].failed

\* C7: on a signal whose collection is empty, Send returns the no-receivers
\* failure and invokes nothing, while SendAsync starts no unit and its channel
\* yields no result and is closed.
C7_EmptySignal ==
    /\ (last.op = "Send" /\ last.pre[last.sig] = <<>>) =>
           last.res = "no_receivers" /\ last.log = <<>>
    /\ (last.op = "SendAsync" /\ last.pre[last.sig] = <<>>) =>
           last.res = "closed" /\ last.log = <<>>
    /\ (async.pc # "idle" /\ async.pre[async.sig] = <<>>) =>
           async.units = <<>> /\ Pushed = 0 /\ ~async.panic

C7_Witness ==
    /\ last.op = "SendAsync"
    /\ last.pre[last.sig] = <<>>
    /\ last.res = "closed"
    /\ last.log = <<>>

\* C3: Get calls that run at the same time for one absent name never make two
\* signals for it: one instance is stored and every caller gets that one.
C3_GetSingleInstance ==
    /\ \A t \in Threads : thr[t].pc = "done" => thr[t].ret = m[thr[t].name]
    /\ \A t, u \in Threads :
           (thr[t].pc = "done" /\ thr[u].pc = "done" /\ thr[t].name = thr[u].name)
               => thr[t].ret = thr[u].ret
    /\ \A s, x \in Sigs : (s # x /\ sname[s] # "") => sname[s] # sname[x]

SigLog(log, s) == SelectSeq(log, LAMBDA e : e.sig = s)

\* The Send on signal s that the last call made went through without failure.
Succeeded(s) == last.pre[s] # <<>> /\ Failed(SigLog(last.log, s)) = {}

VisitPos(s) == CHOOSE k \in 1..Len(last.visited) : last.visited[k] = s

C10_CreateOrSend ==
    last.op = "CreateOrSend" =>
        IF last.preM[last.name] = Nil
        THEN /\ m = [last.preM EXCEPT ![last.name] = last.sig]
             /\ last.sig # Nil
             /\ last.preNames[last.sig] = ""
             /\ last.pre[last.sig] = <<>>
             /\ receivers[last.sig] = <<>>
             /\ last.res = "no_receivers"
             /\ last.log = <<>>
        ELSE /\ m = last.preM
             /\ last.sig = m[last.name]
             /\ LogRecv(last.log) = last.pre[last.sig]
             /\ last.res = IF last.pre[last.sig] = <<>> THEN "no_receivers"
                           ELSE IF Failed(last.log) # {} THEN "send_failed"
                           ELSE "nil"

C10_Witness ==
    /\ last.op = "CreateOrSend"
    /\ last.preM[last.name] = Nil
    /\ last.res = "no_receivers"
    /\ PoolSigs(last.preM) # {}

\* C11 as stated: CreateOrSend returns a failure only when the callback of at
\* least one receiver returned a failure during the dispatch.
C11_OnlyCallbackFailure ==
    (last.op = "CreateOrSend" /\ last.res # "nil") => Failed(last.log) # {}

\* C11: CreateOrSend always has a target, found or made, and returns a failure
\* only when that target's collection is empty (as it is for every name that
\* was absent), which is the no-receivers failure, or when the callback of at
\* least one receiver returned a failure during the dispatch.
C11_CreateOrSendFailure ==
    last.op = "CreateOrSend" =>
        /\ last.sig # Nil
        /\ m[last.name] = last.sig
        /\ last.res \in {"nil", "no_receivers", "send_failed"}
        /\ last.res = "no_receivers" <=> receivers[last.sig] = <<>>
        /\ last.res = "send_failed" <=> Failed(last.log) # {}

C11_Witness ==
    /\ last.op = "CreateOrSend"
    /\ last.preM[last.name] # Nil
    /\ last.res = "no_receivers"
    /\ \E s \in Sigs \ {last.sig} : receivers[s] # <<>>

\* C14: Pool.Send on a name the pool does not hold returns the not-found
\* failure, invokes no receiver and leaves the map, the signals and the
\* receivers as they were; on a name it holds it runs Send on that signal, every
\* attached entry being invoked in order, and returns what that Send returns.
C14_PoolSend ==
    last.op = "PoolSend" =>
        /\ m = last.preM
        /\ sname = last.preNames
        /\ receivers = last.pre
        /\ rsignal = last.preRs
        /\ IF last.preM[last.name] = Nil
           THEN last.res = "not_found" /\ last.log = <<>> /\ last.sig = Nil
           ELSE /\ last.sig = last.preM[last.name]
                /\ \A k \in 1..Len(last.log) : last.log[k].sig = last.sig
                /\ LogRecv(last.log) = last.pre[last.sig]
                /\ last.res = IF last.pre[last.sig] = <<>> THEN "no_receivers"
                              ELSE IF Failed(last.log) # {} THEN "send_failed"
                              ELSE "nil"

C14_Witness ==
    /\ last.op = "PoolSend"
    /\ last.res = "not_found"
    /\ m[last.name] = Nil
    /\ \E n \in Names : m[n] # Nil /\ receivers[m[n]] # <<>>

\* The signals that callers hold for a name with no Delete of it since.
Current(t) == thr[t].pc = "done" /\ ~thr[t].stale

\* C12: with no Delete of the name in between, two Gets of one name return the
\* same instance; a Get changes no collection and no back-reference; and a Send
\* through one of the two signals invokes every receiver attached through the
\* other.
C12_GetSameInstance ==
    /\ \A t, u \in Threads :
        (Current(t) /\ Current(u) /\ thr[t].name = thr[u].name) =>
            /\ thr[t].ret = thr[u].ret
            /\ \A r \in Recv :
                (rsignal[r] = thr[t].ret /\ last.op = "Send"
                    /\ last.sig = thr[u].ret)
                => r \in Range(LogRecv(last.log))
    /\ last.op = "Get" =>
        /\ receivers = last.pre
        /\ rsignal = last.preRs
        /\ last.preM[last.name] # Nil => last.sig = last.preM[last.name]

C12_Witness ==
    /\ last.op = "Send"
    /\ \A t \in Threads : Current(t) /\ thr[t].name = last.name
    /\ Len(last.log) >= 2
    /\ last.res = "nil"

\* C13: Delete takes the name out of the map and changes nothing else; a Send
\* on a signal no name maps to any more still invokes every receiver attached to
\* it, in order; and a Get of a name the map does not hold returns an instance
\* that did not exist before, with an empty collection, other than every signal
\* held for that name from before its Delete.
C13_DeleteKeepsSignal ==
    /\ last.op = "Delete" =>
        /\ m = [last.preM EXCEPT ![last.name] = Nil]
        /\ sname = last.preNames
        /\ receivers = last.pre
        /\ rsignal = last.preRs
    /\ (last.op = "Send" /\ \A n \in Names : m[n] # last.sig) =>
        /\ LogRecv(last.log) = last.pre[last.sig]
        /\ receivers = last.pre
        /\ last.res = IF last.pre[last.sig] = <<>> THEN "no_receivers"
                      ELSE IF Failed(last.log) # {} THEN "send_failed"
                      ELSE "nil"
    /\ (last.op = "Get" /\ last.preM[last.name] = Nil) =>
        /\ last.preNames[last.sig] = ""
        /\ receivers[last.sig] = <<>>
        /\ m[last.name] = last.sig
        /\ \A t \in Threads :
            (thr[t].pc = "done" /\ thr[t].stale /\ thr[t].name = last.name)
                => thr[t].ret # last.sig

C13_Witness ==
    /\ last.op = "Send"
    /\ m[last.name] \notin {Nil, last.sig}
    /\ Len(last.log) >= 1
    /\ receivers[m[last.name]] = <<>>
    /\ \E t \in Threads : thr[t].pc = "done" /\ thr[t].stale /\ thr[t].ret = last.sig

\* C17: between operations, no collection holds two entries of one receiver
\* identity, whatever Connect, Disconnect and Clear calls were made.
C17_NoDuplicates ==
    (~clr.active /\ ~Crashed) =>
        \A s \in Sigs : \A i, j \in 1..Len(receivers[s]) :
            i # j => ID(receivers[s][i]) # ID(receivers[s][j])

\* C18: between operations, a receiver is in the collection of signal s exactly
\* when its back-reference is s, and so in the collection of one signal at most.
C18_OneSignal ==
    (~clr.active /\ ~Crashed) =>
        \A r \in Recv : \A s \in Sigs :
            r \in Range(receivers[s]) <=> rsignal[r] = s

\* C15: SendAsync holds the lock of the signal while it launches its units and
\* not while they run: once every unit is launched, the coordinator does not
\* keep the lock while a callback is still running.
C15_LockOnlyWhileLaunching ==
    (/\ async.pc = "launch"
     /\ async.i > async.n
     /\ \E u \in 1..Len(async.units) : async.units[u].st = "run")
        => mu[async.sig] # "async"

\* C16: a callback that SendAsync runs and that calls Connect or Disconnect on
\* the signal being dispatched is not held at the lock for ever: the dispatch
\* goes on to close its channel.
C16_CallbackNotBlocked ==
    (\E u \in 1..Len(async.units) :
        async.units[u].st = "call" /\ async.units[u].call = async.sig)
    ~> async.closed

\* Goroutine t is between the first and the last callback of its Send.
Dispatching(t) ==
    /\ thr[t].pc = "loop"
    /\ Len(thr[t].log) >= 1
    /\ thr[t].i <= Len(thr[t].snap)

C19_Step ==
    \A t \in Threads : Dispatching(t) =>
        /\ receivers'[thr[t].ret] = receivers[thr[t].ret]
        /\ \A u \in Threads \ {t} :
            (thr[u].pc = "loop" /\ thr[u].ret = thr[t].ret)
                => thr'[u].log = thr[u].log

\* C19: between the first and the last callback of one Send, no step of another
\* goroutine changes the collection of its signal and no other Send on that
\* signal invokes a callback; the Send ranges over the collection as it is.
C19_DispatchExcludesMutation ==
    /\ [](\A t \in Threads : Dispatching(t) => thr[t].snap = receivers[thr[t].ret])
    /\ [][C19_Step]_vars

C19_Witness ==
    /\ Dispatching("t1")
    /\ thr["t2"].pc = "lock"
    /\ thr["t2"].ret = thr["t1"].ret
    /\ Len(thr["t1"].snap) >= 2
    /\ \E r \in Recv : rsignal[r] = Nil

\* C20: a Send that returns nil has invoked one receiver at least, also when a
\* Disconnect runs between its emptiness check and its Lock().
C20_NilMeansDelivered ==
    \A t \in Threads :
        (thr[t].pc = "sent" /\ thr[t].res = "nil") => thr[t].log # <<>>

\* C21: a Send whose callbacks do a finite amount of work returns, also when a
\* callback calls Disconnect() on its own receiver or Connect on the signal that
\* is being dispatched.
C21_SendTerminates ==
    (thr["t1"].pc \in {"lock", "loop", "call"}) ~> (thr["t1"].pc = "sent")

\* C22: once a Listen(name, cb) has returned, and nothing being deleted,
\* disconnected or cleared, the signal the pool holds for name, which is what
\* every later Get and Send of the name uses, contains the receiver Listen made,
\* whatever Get, Listen and CreateOrSend calls run at the same time.
C22_RegistrationKept ==
    \A t \in Threads :
        thr[t].pc = "listened" =>
            /\ m[thr[t].name] # Nil
            /\ thr[t].recv \in Range(receivers[m[thr[t].name]])

\* C23: a SendAsync whose channel is never read does not keep the signal: its
\* coordinator comes to its end with the lock released, also when a Connect ran
\* between the SendAsync call and the coordinator's Lock().
C23_UnreadReleasesLock ==
    (async.pc \in {"lock", "launch"})
        ~> (async.pc = "ended" /\ mu[async.sig] = "free")

\* C24: a SendGlobal whose callbacks do a finite amount of work returns, also
\* when a callback calls Get, Listen or CreateOrSend of a new name, or Delete,
\* on the pool that is being ranged over.
C24_SendGlobalTerminates ==
    (thr["t1"].pc \in {"range", "gcall"}) ~> (thr["t1"].pc = "sent")

====
